---- MODULE Spec2Model ----
(***************************************************************************)
(* go-pixiv: the OAuth token provider (token.go) and the API client that   *)
(* asks it for a bearer token before every request.                        *)
(*                                                                         *)
(* Goroutines call Token() or an endpoint method of the client.  A call is *)
(* cut at the points where another goroutine or the environment can        *)
(* interleave: acquiring the mutex, sending a request, receiving the       *)
(* response, releasing the mutex.                                          *)
(*                                                                         *)
(* Time is counted in clock ticks; TicksPerSecond ticks make one second,   *)
(* so the conversion of expires_in (seconds) to a duration is a real       *)
(* multiplication.  The base URLs are taken to be well-formed, so          *)
(* http.NewRequest fails only for a caller-supplied URL.  The auth server  *)
(* answers a 2xx with a token document, an empty body or a body that is    *)
(* not JSON, and a non-2xx with an error document, an empty body or a body *)
(* that is not JSON.                                                       *)
(***************************************************************************)
EXTENDS Integers, Sequences, FiniteSets, TLC

\* ------------------------------------------------------------------ bounds

\* number of goroutines sharing one provider and one client
NumCallers == 2
\* the injectable clock now() reads 0..MaxClock
MaxClock == 2
\* clock ticks per second
TicksPerSecond == 2
\* the server issues token documents numbered 1..NumTokens; document i carries access
\* token i, refresh token i and expires_in = i seconds
NumTokens == 2

Callers == 1..NumCallers

\* the goroutine that calls the API client
ClientCallers == {1}

\* the two goroutines that contend for the provider's lock
LockCallers == {1, 2}

\* ------------------------------------------------------- values and errors

\* the Go empty string ""
EmptyString == <<>>

\* a nil error
Nil == [kind |-> "nil"]

\* p.token == nil
NoToken == [nil |-> TRUE]

\* the Credential the provider was constructed with
credential ==
  [Username |-> "USERNAME", Password |-> "PASSWORD",
   ClientID |-> "CLIENT_ID", ClientSecret |-> "CLIENT_SECRET"]

\* header maps: a function from header names to values
defaultOauthHeaders ==
  ("User-Agent" :> "PixivAndroidApp/5.0.64") @@ ("App-OS" :> "android")
    @@ ("App-OS-Version" :> "6.0") @@ ("App-Version" :> "5.0.64")

defaultAPIHeaders ==
  ("User-Agent" :> "PixivAndroidApp/5.0.64") @@ ("App-OS" :> "android")
    @@ ("App-OS-Version" :> "6.0") @@ ("App-Version" :> "5.0.64")

\* Content-Type values, as the list of their ;-separated parts
CTJsonCharset == <<"application/json", "charset=utf-8">>

CTHtml == <<"text/html">>

ContentTypes == {CTJsonCharset, CTHtml}

\* strings.Contains(s, sub), on a value given as its parts
Contains(s, sub) == \E i \in 1..Len(s) : s[i] = sub

\* response bodies
EmptyBody == [kind |-> "empty"]

GarbageBody == [kind |-> "garbage"]

ErrorBody == [kind |-> "error", has_error |-> TRUE, errors |-> "system:1508"]

TokenBodies ==
  { [kind |-> "token", access_token |-> <<"AT", i>>, refresh_token |-> <<"RT", i>>,
     expires_in |-> i] : i \in 1..NumTokens }

StatusText(code) ==
  CASE code = 200 -> "200 OK"
    [] code = 204 -> "204 No Content"
    [] code = 400 -> "400 Bad Request"
    [] code = 404 -> "404 Not Found"
    [] OTHER -> "unknown"

\* what an auth call can come back with: a transport error, or a response
\* whose body can be read (readOK) or breaks off while it is read
AuthResponses ==
  { [StatusCode |-> c, Status |-> StatusText(c), ContentType |-> ct, Body |-> b,
     readOK |-> ok] :
      c \in {200, 400}, ct \in ContentTypes,
      b \in TokenBodies \cup {EmptyBody, GarbageBody, ErrorBody}, ok \in BOOLEAN }

Is2xx(code) == 200 <= code /\ code <= 299

AuthOutcomes ==
  { [transport |-> "error"] } \cup
  { [transport |-> "ok", res |-> r] : r \in
      { r \in AuthResponses :
          /\ Is2xx(r.StatusCode) => r.Body \in TokenBodies \cup {EmptyBody, GarbageBody}
          /\ ~Is2xx(r.StatusCode) => r.Body \in {EmptyBody, GarbageBody, ErrorBody}
          /\ (Is2xx(r.StatusCode) \/ ~Contains(r.ContentType, "application/json")) => r.readOK } }

\* ---------------------------------------------------------- token provider

\* token.expired: createdOn.Add(expiresIn).After(now())
expired(t, n) == t.createdOn + t.expiresIn > n

\* the form authorize() posts
authorizeForm ==
  [username |-> credential.Username, password |-> credential.Password,
   client_id |-> credential.ClientID, client_secret |-> credential.ClientSecret,
   grant_type |-> "password", get_secure_url |-> "true"]

refreshFormSendingAccessToken(tok) ==
  [refresh_token |-> tok.accessToken,
   client_id |-> credential.ClientID, client_secret |-> credential.ClientSecret,
   grant_type |-> "refresh_token", get_secure_url |-> "true"]

\* the form refresh() posts, from the cached token
refreshForm(tok) ==
  [refresh_token |-> tok.refreshToken,
   client_id |-> credential.ClientID, client_secret |-> credential.ClientSecret,
   grant_type |-> "refresh_token", get_secure_url |-> "true"]

\* the POST /auth/token request with the provider's headers set on it
request(form) ==
  [method |-> "POST", path |-> "/auth/token",
   contentType |-> "application/x-www-form-urlencoded",
   headers |-> defaultOauthHeaders, form |-> form]

\* json.Decoder.Decode fails on an empty body (EOF) and on a body that is not JSON
JSONDecodes(body) == body.kind \notin {"empty", "garbage"}

onSuccessKeepingRefreshToken(tok, res, t) ==
  IF ~Contains(res.ContentType, "application/json")
    THEN [token |-> tok, err |-> [kind |-> "content-type"]]
    ELSE IF ~JSONDecodes(res.Body)
      THEN [token |-> tok, err |-> [kind |-> "decode"]]
      ELSE [token |->
              [accessToken |-> res.Body.access_token,
               refreshToken |-> IF tok = NoToken THEN res.Body.refresh_token
                                                 ELSE tok.refreshToken,
               createdOn |-> t,
               expiresIn |-> res.Body.expires_in * TicksPerSecond],
            err |-> Nil]

onSuccessStoringBeforeChecks(tok, res, t) ==
  LET new == IF JSONDecodes(res.Body)
               THEN [accessToken |-> res.Body.access_token,
                     refreshToken |-> res.Body.refresh_token,
                     createdOn |-> t,
                     expiresIn |-> res.Body.expires_in * TicksPerSecond]
               ELSE tok
  IN IF ~Contains(res.ContentType, "application/json")
       THEN [token |-> new, err |-> [kind |-> "content-type"]]
       ELSE IF ~JSONDecodes(res.Body)
         THEN [token |-> new, err |-> [kind |-> "decode"]]
         ELSE [token |-> new, err |-> Nil]

\* onSuccess: the provider's token after a 2xx response read at clock t, and the error
onSuccess(tok, res, t) ==
  IF ~Contains(res.ContentType, "application/json")
    THEN [token |-> tok, err |-> [kind |-> "content-type"]]
    ELSE IF ~JSONDecodes(res.Body)
      THEN [token |-> tok, err |-> [kind |-> "decode"]]
      ELSE [token |->
              [accessToken |-> res.Body.access_token,
               refreshToken |-> res.Body.refresh_token,
               createdOn |-> t,
               expiresIn |-> res.Body.expires_in * TicksPerSecond],
            err |-> Nil]

onFailureAlwaysReadingBody(res) ==
  IF ~res.readOK
    THEN [kind |-> "read"]
    ELSE [kind |-> "ErrToken", StatusCode |-> res.StatusCode, Status |-> res.Status,
          JSON |-> res.Body]

\* onFailure: the error for a non-2xx response
onFailure(res) ==
  LET r == [kind |-> "ErrToken", StatusCode |-> res.StatusCode, Status |-> res.Status,
            JSON |-> EmptyBody]
  IN IF Contains(res.ContentType, "application/json")
       THEN IF ~res.readOK THEN [kind |-> "read"] ELSE [r EXCEPT !.JSON = res.Body]
       ELSE r

afterRequestClearingToken(tok, out, t) ==
  IF out.transport = "error"
    THEN [token |-> tok, err |-> [kind |-> "transport"]]
    ELSE IF ~Is2xx(out.res.StatusCode)
      THEN [token |-> NoToken, err |-> onFailure(out.res)]
      ELSE onSuccess(tok, out.res, t)

\* the tail shared by authorize() and refresh(): what the call's outcome makes of
\* the provider's token, and the error returned
afterRequest(tok, out, t) ==
  IF out.transport = "error"
    THEN [token |-> tok, err |-> [kind |-> "transport"]]
    ELSE IF ~Is2xx(out.res.StatusCode)
      THEN [token |-> tok, err |-> onFailure(out.res)]
      ELSE onSuccess(tok, out.res, t)

\* ErrToken.TokenErrorBody
TokenErrorBody(e) ==
  IF e.JSON.kind = "empty"
    THEN [val |-> [HasError |-> FALSE, Errors |-> "none"], err |-> [kind |-> "no JSON contents"]]
    ELSE IF ~JSONDecodes(e.JSON)
      THEN [val |-> [HasError |-> FALSE, Errors |-> "none"], err |-> [kind |-> "decode"]]
      ELSE [val |-> IF e.JSON.kind = "error"
                      THEN [HasError |-> e.JSON.has_error, Errors |-> e.JSON.errors]
                      ELSE [HasError |-> FALSE, Errors |-> "none"],
            err |-> Nil]

\* ------------------------------------------------------------- API client

\* an optional parameter (a pointer): unset (nil), or set to a value
None == [set |-> FALSE]

Some(v) == [set |-> TRUE, v |-> v]

\* the parameter objects a caller can build with the Set* methods
RankingParams ==
  [Mode : {None, Some("day")},
   Date : {None, Some([year |-> 2017, month |-> 9, day |-> 1])},
   Offset : {None, Some(30)},
   Filter : {None, Some("for_ios")}]

DetailParams == [IllustID : {None, Some(62397682)}]

\* ErrInvalidParams with the errors added to it
ErrInvalidParams(errs) == [kind |-> "ErrInvalidParams", Errs |-> errs]

validateRankingAcceptingAll(params) == Nil

\* GetIllustRankingParams.validate
validateRanking(params) ==
  LET errs == IF ~params.Mode.set
                THEN <<[Field |-> "Mode", Message |-> "missing required field"]>>
                ELSE <<>>
  IN IF Len(errs) > 0 THEN ErrInvalidParams(errs) ELSE Nil

\* GetIllustDetailParams.validate
validateDetail(params) ==
  LET errs == IF ~params.IllustID.set
                THEN <<[Field |-> "IllustID", Message |-> "missing required field"]>>
                ELSE <<>>
  IN IF Len(errs) > 0 THEN ErrInvalidParams(errs) ELSE Nil

\* one decimal digit as a character
Digit(d) ==
  CASE d = 0 -> "0" [] d = 1 -> "1" [] d = 2 -> "2" [] d = 3 -> "3" [] d = 4 -> "4"
    [] d = 5 -> "5" [] d = 6 -> "6" [] d = 7 -> "7" [] d = 8 -> "8" [] d = 9 -> "9"

RECURSIVE Itoa(_)
\* strconv.Itoa of a number >= 0, as its characters
Itoa(n) == IF n < 10 THEN <<Digit(n)>> ELSE Itoa(n \div 10) \o <<Digit(n % 10)>>

\* a number < 100 on two digits
Pad2(n) == <<Digit(n \div 10), Digit(n % 10)>>

\* Time.Format("2006-01-02")
FormatDate(d) == Itoa(d.year) \o <<"-">> \o Pad2(d.month) \o <<"-">> \o Pad2(d.day)

\* v.Set(k, x) on url.Values, a map from keys to values
Set(v, k, x) == (k :> x) @@ v

\* the empty url.Values
Values == [k \in {} |-> ""]

rankingQueryWithoutDefaultFilter(params) ==
  LET v1 == Set(Values, "mode", params.Mode.v)
      v2 == IF params.Date.set THEN Set(v1, "date", FormatDate(params.Date.v)) ELSE v1
      v3 == IF params.Offset.set THEN Set(v2, "offset", Itoa(params.Offset.v)) ELSE v2
  IN IF params.Filter.set THEN Set(v3, "filter", params.Filter.v) ELSE v3

\* GetIllustRankingParams.buildQuery
rankingQuery(params) ==
  LET v1 == Set(Values, "mode", params.Mode.v)
      v2 == IF params.Date.set THEN Set(v1, "date", FormatDate(params.Date.v)) ELSE v1
      v3 == IF params.Offset.set THEN Set(v2, "offset", Itoa(params.Offset.v)) ELSE v2
  IN IF params.Filter.set THEN Set(v3, "filter", params.Filter.v)
                          ELSE Set(v3, "filter", "for_android")

\* GetIllustDetailParams.buildQuery
detailQuery(params) == Set(Values, "illust_id", Itoa(params.IllustID.v))

\* http.NewRequest("GET", ...): a request with no header set yet
NewRequest(path, query) ==
  [method |-> "GET", path |-> path, query |-> query,
   header |-> Values]

\* no request built
NoRequest == [none |-> TRUE]

\* fmt.Sprintf("Bearer %s", token)
Bearer(tok) == <<"Bearer">> \o tok

\* the decoded API document
ApiBody == [kind |-> "api"]

ApiErrorBody == [kind |-> "error", user_message |-> "not found"]

ApiResponses ==
  { [StatusCode |-> c, Status |-> StatusText(c), ContentType |-> ct, Body |-> b,
     readOK |-> ok] :
      c \in {200, 204, 404}, ct \in ContentTypes,
      b \in {ApiBody, EmptyBody, GarbageBody, ApiErrorBody}, ok \in BOOLEAN }

ApiOutcomes ==
  { [transport |-> "error"] } \cup
  { [transport |-> "ok", res |-> r] : r \in
      { r \in ApiResponses :
          /\ r.StatusCode = 200 => r.Body \in {ApiBody, EmptyBody, GarbageBody}
          /\ r.StatusCode # 200 => r.Body \in {ApiErrorBody, EmptyBody, GarbageBody}
          /\ (r.StatusCode = 200 \/ ~Contains(r.ContentType, "application/json")) => r.readOK } }

clientOnFailureAlwaysReadingBody(res) ==
  IF ~res.readOK
    THEN [kind |-> "read"]
    ELSE [kind |-> "ErrAPI", StatusCode |-> res.StatusCode, Status |-> res.Status,
          JSON |-> res.Body]

\* Client.onFailure: the error for a response whose status is not 200
clientOnFailure(res) ==
  LET r == [kind |-> "ErrAPI", StatusCode |-> res.StatusCode, Status |-> res.Status,
            JSON |-> EmptyBody]
  IN IF Contains(res.ContentType, "application/json")
       THEN IF ~res.readOK THEN [kind |-> "read"] ELSE [r EXCEPT !.JSON = res.Body]
       ELSE r

\* req.Header.Set for every entry of a header map
setHeaders(h, hs) ==
  [k \in DOMAIN h \cup DOMAIN hs |-> IF k \in DOMAIN hs THEN hs[k] ELSE h[k]]

doIgnoringTokenError(req, r) ==
  [send |-> TRUE,
   req |-> [req EXCEPT !.header =
              setHeaders(Set(req.header, "Authorization", Bearer(r.tok)), defaultAPIHeaders)],
   err |-> Nil]

\* Client.Do once Token() has returned r: the error to return, or the request to send
do(req, r) ==
  IF r.err # Nil
    THEN [send |-> FALSE, req |-> req, err |-> r.err]
    ELSE [send |-> TRUE,
          req |-> [req EXCEPT !.header =
                     setHeaders(Set(req.header, "Authorization", Bearer(r.tok)),
                                defaultAPIHeaders)],
          err |-> Nil]

\* the URLs a caller can hand to GetIllustRankingNext
NextURLs == {"https://app-api.pixiv.net/v1/illust/ranking?offset=30", "%malformed"}

\* http.NewRequest fails on a URL it cannot parse
URLParses(u) == u # "%malformed"

\* no result (a nil pointer)
NoVal == [none |-> TRUE]

endpointResultDecodingFirst(out) ==
  IF out.transport = "error"
    THEN [val |-> NoVal, err |-> [kind |-> "transport"]]
    ELSE IF out.res.StatusCode # 200
      THEN [val |-> NoVal, err |-> clientOnFailure(out.res)]
      ELSE IF ~JSONDecodes(out.res.Body)
        THEN [val |-> NoVal, err |-> [kind |-> "decode"]]
        ELSE IF ~Contains(out.res.ContentType, "application/json")
          THEN [val |-> NoVal, err |-> [kind |-> "content-type"]]
          ELSE [val |-> out.res.Body, err |-> Nil]

\* what an endpoint method makes of c.Do's outcome: (result, error)
endpointResult(out) ==
  IF out.transport = "error"
    THEN [val |-> NoVal, err |-> [kind |-> "transport"]]
    ELSE IF out.res.StatusCode # 200
      THEN [val |-> NoVal, err |-> clientOnFailure(out.res)]
      ELSE IF ~Contains(out.res.ContentType, "application/json")
        THEN [val |-> NoVal, err |-> [kind |-> "content-type"]]
        ELSE IF ~JSONDecodes(out.res.Body)
          THEN [val |-> NoVal, err |-> [kind |-> "decode"]]
          ELSE [val |-> out.res.Body, err |-> Nil]

\* what Client.Do hands back to a caller that called it directly: c.client.Do's result
doResult(out) ==
  IF out.transport = "error"
    THEN [val |-> NoVal, err |-> [kind |-> "transport"]]
    ELSE [val |-> [StatusCode |-> out.res.StatusCode], err |-> Nil]

\* ------------------------------------------------------------------ state

VARIABLES
  clock,        \* what now() returns
  token,        \* p.token
  mx,           \* p.mx: 0 when unlocked, else the goroutine holding it
  pc,           \* where each goroutine is in its call
  op,           \* the method each goroutine is calling
  params,       \* the parameter object it was called with
  path,         \* the branch of Token() the goroutine took
  seen,         \* the provider's state when the goroutine looked at p.token
  checkedAt,    \* the clock reading of that look
  authReq,      \* the request the goroutine sent to the auth endpoint
  ret,          \* what Token() returns to the goroutine
  apiReq,       \* the API request the goroutine built
  result,       \* what the client method returns
  errBody,      \* what TokenErrorBody() returned for the ErrToken of the call
  apiOut,       \* what c.client.Do(req) came back with in the call
  cnt,          \* per call: Token() calls made, auth requests sent, API requests sent
  lastResponse, \* the auth response the lock holder received in this call
  lastDecoded,  \* the token document decoded last, and the clock reading then
  lastFail,     \* the call that got a non-2xx from the auth endpoint at this clock reading
  blocked       \* the goroutines that were waiting for the mutex when the token was stored

vars ==
  <<clock, token, mx, pc, op, params, path, seen, checkedAt, authReq, ret, apiReq,
    result, errBody, apiOut, cnt, lastResponse, lastDecoded, lastFail, blocked>>

\* nothing recorded
NoRecord == [none |-> TRUE]

NoCount == [token |-> 0, auth |-> 0, api |-> 0]

\* the state the spec gives the provider at clock reading n
ProviderState(tok, n) ==
  IF tok = NoToken THEN "unset"
  ELSE IF n < tok.createdOn + tok.expiresIn THEN "valid" ELSE "expired"

Init ==
  /\ clock = 0
  /\ token = NoToken
  /\ mx = 0
  /\ pc = [p \in Callers |-> "idle"]
  /\ op = [p \in Callers |-> "none"]
  /\ params = [p \in Callers |-> NoRecord]
  /\ path = [p \in Callers |-> "none"]
  /\ seen = [p \in Callers |-> "none"]
  /\ checkedAt = [p \in Callers |-> 0]
  /\ authReq = [p \in Callers |-> NoRequest]
  /\ ret = [p \in Callers |-> NoRecord]
  /\ apiReq = [p \in Callers |-> NoRequest]
  /\ result = [p \in Callers |-> NoRecord]
  /\ errBody = [p \in Callers |-> NoRecord]
  /\ apiOut = [p \in Callers |-> NoRecord]
  /\ cnt = [p \in Callers |-> NoCount]
  /\ lastResponse = NoRecord
  /\ lastDecoded = NoRecord
  /\ lastFail = NoRecord
  /\ blocked = [p \in Callers |-> FALSE]

provider == <<token, mx, lastResponse, lastDecoded, lastFail, blocked>>

tokenLocals == <<path, seen, checkedAt, authReq, ret>>

\* the clock moves on
Tick ==
  /\ clock < MaxClock
  /\ clock' = clock + 1
  /\ lastFail' = NoRecord
  /\ UNCHANGED <<token, mx, lastResponse, lastDecoded, blocked, pc, op, params, tokenLocals,
                 apiReq, result, errBody, apiOut, cnt>>

\* a goroutine calls p.Token() itself
CallToken(p) ==
  /\ pc[p] = "idle"
  /\ op' = [op EXCEPT ![p] = "Token"]
  /\ pc' = [pc EXCEPT ![p] = "lock"]
  /\ cnt' = [cnt EXCEPT ![p] = [NoCount EXCEPT !.token = 1]]
  /\ UNCHANGED <<clock, provider, params, tokenLocals, apiReq, result, errBody, apiOut>>

LockWithoutWaiting(p) ==
  /\ pc[p] = "lock"
  /\ mx' = p
  /\ pc' = [pc EXCEPT ![p] = "check"]
  /\ UNCHANGED <<clock, token, lastResponse, lastDecoded, lastFail, blocked, op, params,
                 tokenLocals, apiReq, result, errBody, apiOut, cnt>>

\* p.mx.Lock()
Lock(p) ==
  /\ pc[p] = "lock"
  /\ mx = 0
  /\ mx' = p
  /\ pc' = [pc EXCEPT ![p] = "check"]
  /\ UNCHANGED <<clock, token, lastResponse, lastDecoded, lastFail, blocked, op, params,
                 tokenLocals, apiReq, result, errBody, apiOut, cnt>>

\* Token() under the lock: look at p.token, and either return the cached access
\* token or send the password-grant or refresh-grant request
Check(p) ==
  /\ pc[p] = "check"
  /\ seen' = [seen EXCEPT ![p] = ProviderState(token, clock)]
  /\ checkedAt' = [checkedAt EXCEPT ![p] = clock]
  /\ IF token = NoToken
       THEN /\ path' = [path EXCEPT ![p] = "authorize"]
            /\ authReq' = [authReq EXCEPT ![p] = request(authorizeForm)]
            /\ cnt' = [cnt EXCEPT ![p].auth = @ + 1]
            /\ pc' = [pc EXCEPT ![p] = "http"]
            /\ UNCHANGED ret
       ELSE IF expired(token, clock)
         THEN /\ path' = [path EXCEPT ![p] = "refresh"]
              /\ authReq' = [authReq EXCEPT ![p] = request(refreshForm(token))]
              /\ cnt' = [cnt EXCEPT ![p].auth = @ + 1]
              /\ pc' = [pc EXCEPT ![p] = "http"]
              /\ UNCHANGED ret
         ELSE /\ path' = [path EXCEPT ![p] = "cached"]
              /\ ret' = [ret EXCEPT ![p] = [tok |-> token.accessToken, err |-> Nil]]
              /\ pc' = [pc EXCEPT ![p] = "unlock"]
              /\ UNCHANGED <<authReq, cnt>>
  /\ UNCHANGED <<clock, token, mx, lastResponse, lastDecoded, lastFail, blocked, op, params,
                 apiReq, result, errBody, apiOut>>

AuthRespondRetrying(p) ==
  /\ pc[p] = "http"
  /\ \E out \in AuthOutcomes :
       LET r == afterRequest(token, out, clock)
           stored == out.transport = "ok" /\ Is2xx(out.res.StatusCode)
                       /\ Contains(out.res.ContentType, "application/json")
                       /\ JSONDecodes(out.res.Body)
       IN /\ token' = r.token
          /\ ret' = [ret EXCEPT ![p] =
                       IF r.err = Nil THEN [tok |-> r.token.accessToken, err |-> Nil]
                                      ELSE [tok |-> EmptyString, err |-> r.err]]
          /\ lastResponse' = IF out.transport = "ok" THEN out.res ELSE NoRecord
          /\ lastDecoded' = IF stored THEN [body |-> out.res.Body, at |-> clock]
                                      ELSE lastDecoded
          /\ lastFail' =
               IF stored THEN NoRecord
               ELSE IF out.transport = "ok" /\ ~Is2xx(out.res.StatusCode)
                         /\ checkedAt[p] = clock
                 THEN [token |-> token, path |-> path[p]]
                 ELSE lastFail
          /\ blocked' = IF stored THEN [q \in Callers |-> pc[q] = "lock"] ELSE blocked
          /\ pc' = [pc EXCEPT ![p] = IF r.err = Nil THEN "unlock" ELSE "check"]
  /\ UNCHANGED <<clock, mx, op, params, path, seen, checkedAt, authReq, apiReq, result,
                 errBody, apiOut, cnt>>

\* p.client.Do(req) returns, and authorize() or refresh() finishes with its outcome
AuthRespond(p) ==
  /\ pc[p] = "http"
  /\ \E out \in AuthOutcomes :
       LET r == afterRequest(token, out, clock)
           stored == out.transport = "ok" /\ Is2xx(out.res.StatusCode)
                       /\ Contains(out.res.ContentType, "application/json")
                       /\ JSONDecodes(out.res.Body)
       IN /\ token' = r.token
          /\ ret' = [ret EXCEPT ![p] =
                       IF r.err = Nil THEN [tok |-> r.token.accessToken, err |-> Nil]
                                      ELSE [tok |-> EmptyString, err |-> r.err]]
          /\ lastResponse' = IF out.transport = "ok" THEN out.res ELSE NoRecord
          /\ lastDecoded' = IF stored THEN [body |-> out.res.Body, at |-> clock]
                                      ELSE lastDecoded
          /\ lastFail' =
               IF stored THEN NoRecord
               ELSE IF out.transport = "ok" /\ ~Is2xx(out.res.StatusCode)
                         /\ checkedAt[p] = clock
                 THEN [token |-> token, path |-> path[p]]
                 ELSE lastFail
          /\ blocked' = IF stored THEN [q \in Callers |-> pc[q] = "lock"] ELSE blocked
  /\ pc' = [pc EXCEPT ![p] = "unlock"]
  /\ UNCHANGED <<clock, mx, op, params, path, seen, checkedAt, authReq, apiReq, result,
                 errBody, apiOut, cnt>>

unlockOnlyOnSuccess(p) ==
  /\ mx' = IF ret[p].err = Nil THEN 0 ELSE mx
  /\ lastResponse' = NoRecord
  /\ blocked' = [blocked EXCEPT ![p] = FALSE]
  /\ path' = [path EXCEPT ![p] = "none"]
  /\ seen' = [seen EXCEPT ![p] = "none"]
  /\ checkedAt' = [checkedAt EXCEPT ![p] = 0]
  /\ authReq' = [authReq EXCEPT ![p] = NoRequest]
  /\ UNCHANGED <<clock, token, lastDecoded, lastFail>>

\* p.mx.Unlock() as Token() returns
unlock(p) ==
  /\ mx' = 0
  /\ lastResponse' = NoRecord
  /\ blocked' = [blocked EXCEPT ![p] = FALSE]
  /\ path' = [path EXCEPT ![p] = "none"]
  /\ seen' = [seen EXCEPT ![p] = "none"]
  /\ checkedAt' = [checkedAt EXCEPT ![p] = 0]
  /\ authReq' = [authReq EXCEPT ![p] = NoRequest]
  /\ UNCHANGED <<clock, token, lastDecoded, lastFail>>

\* Token() returns to the goroutine that called it, which, handed an ErrToken, calls
\* TokenErrorBody() on it
Unlock(p) ==
  /\ pc[p] = "unlock"
  /\ op[p] = "Token"
  /\ unlock(p)
  /\ errBody' = [errBody EXCEPT ![p] =
                   IF ret[p].err.kind = "ErrToken" THEN TokenErrorBody(ret[p].err)
                                                   ELSE NoRecord]
  /\ pc' = [pc EXCEPT ![p] = "done"]
  /\ UNCHANGED <<op, params, ret, apiReq, result, apiOut, cnt>>

\* Token() returns to Client.Do, which returns its error or sets the headers and
\* hands the request to the HTTP client
Do(p) ==
  /\ pc[p] = "unlock"
  /\ op[p] # "Token"
  /\ unlock(p)
  /\ LET d == do(apiReq[p], ret[p])
     IN IF d.send
          THEN /\ apiReq' = [apiReq EXCEPT ![p] = d.req]
               /\ cnt' = [cnt EXCEPT ![p].api = @ + 1]
               /\ pc' = [pc EXCEPT ![p] = "api"]
               /\ UNCHANGED result
          ELSE /\ result' = [result EXCEPT ![p] = [val |-> NoVal, err |-> d.err]]
               /\ pc' = [pc EXCEPT ![p] = "done"]
               /\ UNCHANGED <<apiReq, cnt>>
  /\ UNCHANGED <<op, params, ret, errBody, apiOut>>

\* the client method starts: its request is built and Client.Do calls Token()
enter(p, name, prm, req) ==
  /\ op' = [op EXCEPT ![p] = name]
  /\ params' = [params EXCEPT ![p] = prm]
  /\ apiReq' = [apiReq EXCEPT ![p] = req]
  /\ cnt' = [cnt EXCEPT ![p] = [NoCount EXCEPT !.token = 1]]
  /\ pc' = [pc EXCEPT ![p] = "lock"]
  /\ UNCHANGED result

\* the client method returns err before Client.Do is called
reject(p, name, prm, err) ==
  /\ op' = [op EXCEPT ![p] = name]
  /\ params' = [params EXCEPT ![p] = prm]
  /\ result' = [result EXCEPT ![p] = [val |-> NoVal, err |-> err]]
  /\ cnt' = [cnt EXCEPT ![p] = NoCount]
  /\ pc' = [pc EXCEPT ![p] = "done"]
  /\ UNCHANGED apiReq

\* c.GetIllustRanking(params), up to the Token() call of Client.Do
CallGetIllustRanking(p) ==
  /\ pc[p] = "idle"
  /\ \E prm \in RankingParams :
       IF validateRanking(prm) # Nil
         THEN reject(p, "GetIllustRanking", prm, validateRanking(prm))
         ELSE IF ~prm.Mode.set
           THEN reject(p, "GetIllustRanking", prm, [kind |-> "panic"])
           ELSE enter(p, "GetIllustRanking", prm,
                      NewRequest("/v1/illust/ranking", rankingQuery(prm)))
  /\ UNCHANGED <<clock, provider, tokenLocals, errBody, apiOut>>

\* c.GetIllustRankingNext(nextURL), up to the Token() call of Client.Do
CallGetIllustRankingNext(p) ==
  /\ pc[p] = "idle"
  /\ \E u \in NextURLs :
       IF ~URLParses(u)
         THEN reject(p, "GetIllustRankingNext", NoRecord, [kind |-> "url"])
         ELSE enter(p, "GetIllustRankingNext", NoRecord, NewRequest(u, Values))
  /\ UNCHANGED <<clock, provider, tokenLocals, errBody, apiOut>>

\* c.GetIllustDetail(params), up to the Token() call of Client.Do
CallGetIllustDetail(p) ==
  /\ pc[p] = "idle"
  /\ \E prm \in DetailParams :
       IF validateDetail(prm) # Nil
         THEN reject(p, "GetIllustDetail", prm, validateDetail(prm))
         ELSE IF ~prm.IllustID.set
           THEN reject(p, "GetIllustDetail", prm, [kind |-> "panic"])
           ELSE enter(p, "GetIllustDetail", prm,
                      NewRequest("/v1/illust/detail", detailQuery(prm)))
  /\ UNCHANGED <<clock, provider, tokenLocals, errBody, apiOut>>

\* c.Do(req) called with a request of the caller's own
CallDo(p) ==
  /\ pc[p] = "idle"
  /\ enter(p, "Do", NoRecord, NewRequest("/v1/user/detail", Values))
  /\ UNCHANGED <<clock, provider, tokenLocals, errBody, apiOut>>

\* c.client.Do(req) returns, and the client method finishes with its outcome
ApiRespond(p) ==
  /\ pc[p] = "api"
  /\ \E out \in ApiOutcomes :
       /\ apiOut' = [apiOut EXCEPT ![p] = out]
       /\ result' = [result EXCEPT ![p] =
                       IF op[p] = "Do" THEN doResult(out) ELSE endpointResult(out)]
  /\ pc' = [pc EXCEPT ![p] = "done"]
  /\ UNCHANGED <<clock, provider, op, params, tokenLocals, apiReq, errBody, cnt>>

\* the call is over; the goroutine is free for its next call
Return(p) ==
  /\ pc[p] = "done"
  /\ pc' = [pc EXCEPT ![p] = "idle"]
  /\ op' = [op EXCEPT ![p] = "none"]
  /\ params' = [params EXCEPT ![p] = NoRecord]
  /\ ret' = [ret EXCEPT ![p] = NoRecord]
  /\ apiReq' = [apiReq EXCEPT ![p] = NoRequest]
  /\ result' = [result EXCEPT ![p] = NoRecord]
  /\ errBody' = [errBody EXCEPT ![p] = NoRecord]
  /\ apiOut' = [apiOut EXCEPT ![p] = NoRecord]
  /\ cnt' = [cnt EXCEPT ![p] = NoCount]
  /\ UNCHANGED <<clock, provider, path, seen, checkedAt, authReq>>

\* goroutines calling Token() on one provider
Next ==
  \/ Tick
  \/ \E p \in Callers : CallToken(p)
  \/ \E p \in Callers : Lock(p)
  \/ \E p \in Callers : Check(p)
  \/ \E p \in Callers : AuthRespond(p)
  \/ \E p \in Callers : Unlock(p)
  \/ \E p \in Callers : Return(p)

Spec == Init /\ [][Next]_vars

\* two goroutines calling Token() on one provider, again and again
NextLive ==
  \/ Tick
  \/ \E p \in LockCallers : CallToken(p)
  \/ \E p \in LockCallers : Lock(p)
  \/ \E p \in LockCallers : Check(p)
  \/ \E p \in LockCallers : AuthRespond(p)
  \/ \E p \in LockCallers : Unlock(p)
  \/ \E p \in LockCallers : Return(p)

\* a goroutine inside Token() keeps running, the auth call it waits for returns, and
\* a goroutine waiting in p.mx.Lock() is not passed over for ever: sync.Mutex hands
\* the lock to a goroutine that has waited long
Fairness ==
  \A p \in LockCallers :
    /\ SF_vars(Lock(p))
    /\ WF_vars(Check(p))
    /\ WF_vars(AuthRespond(p))
    /\ WF_vars(Unlock(p))

SpecLive == Init /\ [][NextLive]_vars /\ Fairness

\* a goroutine calling the methods of a client configured with the provider
NextClient ==
  \/ Tick
  \/ \E p \in ClientCallers : CallGetIllustRanking(p)
  \/ \E p \in ClientCallers : CallGetIllustRankingNext(p)
  \/ \E p \in ClientCallers : CallGetIllustDetail(p)
  \/ \E p \in ClientCallers : CallDo(p)
  \/ \E p \in ClientCallers : Lock(p)
  \/ \E p \in ClientCallers : Check(p)
  \/ \E p \in ClientCallers : AuthRespond(p)
  \/ \E p \in ClientCallers : Do(p)
  \/ \E p \in ClientCallers : ApiRespond(p)
  \/ \E p \in ClientCallers : Return(p)

SpecClient == Init /\ [][NextClient]_vars

\* ----------------------------------------------------------------- claims

\* a goroutine that has looked at p.token and has not yet returned from Token()
InToken(p) == pc[p] \in {"http", "unlock"}

\* C1: the first Token() call on a fresh provider sends exactly one password-grant
\* request; a call made while the cached token is unexpired (now < createdOn +
\* expiresIn) sends no auth request and returns the cached access token.
C1_UnexpiredTokenIsServedFromCache ==
  \A p \in Callers :
    InToken(p) =>
      /\ seen[p] = "unset" =>
           /\ path[p] = "authorize"
           /\ cnt[p].auth = 1
           /\ authReq[p].form.grant_type = "password"
      /\ seen[p] = "valid" =>
           /\ path[p] = "cached"
           /\ cnt[p].auth = 0
           /\ ret[p] = [tok |-> token.accessToken, err |-> Nil]

\* C2: a Token() call made when a token is cached and now >= createdOn + expiresIn
\* sends exactly one refresh-grant request and, when it succeeds, returns the access
\* token of the refresh response.
C2_ExpiredTokenIsRefreshed ==
  \A p \in Callers :
    (InToken(p) /\ seen[p] = "expired") =>
      /\ path[p] = "refresh"
      /\ cnt[p].auth = 1
      /\ authReq[p].form.grant_type = "refresh_token"
      /\ (pc[p] = "unlock" /\ ret[p].err = Nil) =>
           ret[p].tok = lastResponse.Body.access_token

\* C3: at most one goroutine is between Lock and Unlock of the provider, so at most
\* one auth call is in flight and the look at p.token, the HTTP call and the write of
\* p.token of one caller are not interleaved with another caller's.
C3_OneCallerInCriticalSection ==
  /\ Cardinality({p \in Callers : pc[p] \in {"check", "http", "unlock"}}) <= 1
  /\ Cardinality({p \in Callers : pc[p] = "http"}) <= 1
  /\ \A p \in Callers : pc[p] \in {"check", "http", "unlock"} => mx = p

C3_Witness ==
  \E p, q \in Callers : p # q /\ pc[p] = "http" /\ pc[q] = "lock"

\* C4: a caller that was blocked while the lock holder obtained a token, and finds
\* that token still unexpired, sends no auth request and returns the holder's token.
C4_BlockedCallersReuseHoldersToken ==
  \A q \in Callers :
    (InToken(q) /\ blocked[q] /\ seen[q] = "valid") =>
      /\ path[q] = "cached"
      /\ cnt[q].auth = 0
      /\ ret[q] = [tok |-> token.accessToken, err |-> Nil]

\* C5: after a non-2xx auth response Token() returns an error and p.token is what it
\* was before the call; the next Token() call at the same clock reading takes the
\* same path (authorize if no token, refresh if one was cached).
C5_FailureLeavesTokenUnchanged ==
  /\ lastFail # NoRecord => token = lastFail.token
  /\ \A p \in Callers :
       (pc[p] = "unlock" /\ lastResponse # NoRecord /\ ~Is2xx(lastResponse.StatusCode)) =>
         /\ ret[p].err # Nil
         /\ ret[p].tok = EmptyString
  /\ \A p \in Callers :
       (lastFail # NoRecord /\ InToken(p)) =>
         /\ path[p] = lastFail.path
         /\ path[p] = IF lastFail.token = NoToken THEN "authorize" ELSE "refresh"

C5_Witness ==
  \E p \in Callers :
    /\ lastFail # NoRecord
    /\ lastFail.token # NoToken
    /\ pc[p] = "http"
    /\ path[p] = "refresh"

C6Step ==
  LET s == ProviderState(token, clock)
      t == ProviderState(token', clock')
  IN /\ token' = NoToken => token = NoToken
     /\ token' # token =>
          \E p \in Callers :
            /\ pc[p] = "http"
            /\ ret'[p].err = Nil
            /\ \/ s = "unset" /\ authReq[p].form.grant_type = "password"
               \/ s = "expired" /\ authReq[p].form.grant_type = "refresh_token"
            /\ t = "valid"
     /\ (token' = token /\ s # t) => (s = "valid" /\ t = "expired")
     /\ \A p \in Callers :
          (pc[p] = "check" /\ pc'[p] = "http") =>
            /\ s # "valid"
            /\ s = "unset" => authReq'[p].form.grant_type = "password"
            /\ s = "expired" => authReq'[p].form.grant_type = "refresh_token"

\* C6: the provider goes unset -> valid by a successful authorize, valid -> expired
\* as time passes and expired -> valid by a successful refresh, and in no other way:
\* no auth request is sent while it is valid, a password grant only from unset, a
\* refresh grant only from expired, and it never returns to unset.
C6_ProviderStateMachine == [][C6Step]_vars

\* C7: the provider holds no token, or one token whose access token, refresh token
\* and validity all come from the auth response decoded last and whose creation time
\* is the clock reading taken at that decode.
C7_TokenIsOneDecodedResponse ==
  /\ (token = NoToken) <=> (lastDecoded = NoRecord)
  /\ token # NoToken =>
       token = [accessToken |-> lastDecoded.body.access_token,
                refreshToken |-> lastDecoded.body.refresh_token,
                createdOn |-> lastDecoded.at,
                expiresIn |-> lastDecoded.body.expires_in * TicksPerSecond]

C7_Witness ==
  \E p \in Callers :
    /\ pc[p] = "unlock"
    /\ path[p] = "refresh"
    /\ ret[p].err = Nil
    /\ authReq[p].form.refresh_token # token.refreshToken
    /\ checkedAt[p] < token.createdOn

\* what C8 says of the ErrToken for a non-2xx response
ErrTokenOf(res) ==
  [kind |-> "ErrToken", StatusCode |-> res.StatusCode, Status |-> StatusText(res.StatusCode),
   JSON |-> IF Contains(res.ContentType, "application/json") THEN res.Body ELSE EmptyBody]

\* what C8 says of TokenErrorBody()
C8_TokenErrorBodyDecodes ==
  \A p \in Callers :
    (pc[p] = "done" /\ op[p] = "Token" /\ ret[p].err.kind = "ErrToken") =>
      /\ ret[p].err.JSON = EmptyBody => errBody[p].err = [kind |-> "no JSON contents"]
      /\ ret[p].err.JSON = GarbageBody => errBody[p].err = [kind |-> "decode"]
      /\ ret[p].err.JSON = ErrorBody =>
           /\ errBody[p].err = Nil
           /\ errBody[p].val = [HasError |-> TRUE, Errors |-> ErrorBody.errors]

\* C8 (as claimed): for every non-2xx auth response Token() returns an ErrToken with
\* the response's StatusCode and Status, whose JSON is the raw body exactly when the
\* Content-Type contains application/json; TokenErrorBody() decodes it, and reports
\* an error when JSON is empty.
C8_EveryFailureYieldsErrToken ==
  /\ \A p \in Callers :
       (pc[p] = "unlock" /\ lastResponse # NoRecord /\ ~Is2xx(lastResponse.StatusCode)) =>
         ret[p].err = ErrTokenOf(lastResponse)
  /\ C8_TokenErrorBodyDecodes

\* C8 (amended): as claimed when the body, if it is read, is read without error; when
\* reading the body of a JSON response fails, Token() returns the read error instead.
C8_FailureYieldsErrTokenUnlessReadFails ==
  /\ \A p \in Callers :
       (pc[p] = "unlock" /\ lastResponse # NoRecord /\ ~Is2xx(lastResponse.StatusCode)) =>
         ret[p].err = IF lastResponse.readOK THEN ErrTokenOf(lastResponse)
                                             ELSE [kind |-> "read"]
  /\ C8_TokenErrorBodyDecodes

C8_Witness ==
  \E p \in Callers :
    /\ pc[p] = "done"
    /\ op[p] = "Token"
    /\ ret[p].err.kind = "ErrToken"
    /\ ret[p].err.StatusCode = 400
    /\ ret[p].err.JSON = ErrorBody
    /\ errBody[p].err = Nil

\* C9: a request the client dispatches follows one Token() call of that method call,
\* carries Authorization: Bearer <the token that call returned> and the client's
\* app-identification headers; when Token() returns an error, no request is
\* dispatched and that error is returned.
C9_RequestsCarryTheToken ==
  \A p \in Callers :
    /\ cnt[p].api > 0 => (cnt[p].api = 1 /\ cnt[p].token = 1)
    /\ pc[p] = "api" =>
         /\ ret[p].err = Nil
         /\ apiReq[p].header["Authorization"] = Bearer(ret[p].tok)
         /\ \A k \in DOMAIN defaultAPIHeaders : apiReq[p].header[k] = defaultAPIHeaders[k]
    /\ (pc[p] = "done" /\ op[p] # "Token" /\ ret[p] # NoRecord /\ ret[p].err # Nil) =>
         /\ cnt[p].api = 0
         /\ result[p] = [val |-> NoVal, err |-> ret[p].err]

C9_Witness ==
  \E p \in Callers :
    /\ pc[p] = "api"
    /\ op[p] = "GetIllustRanking"
    /\ apiReq[p].header["Authorization"] = <<"Bearer", "AT", NumTokens>>

\* C10: GetIllustRanking without Mode, and GetIllustDetail without IllustID, return
\* an ErrInvalidParams naming the field, and neither Token() nor the HTTP client is
\* called.
C10_ValidationBeforeAnyCall ==
  \A p \in Callers :
    /\ (op[p] = "GetIllustRanking" /\ params[p] # NoRecord /\ ~params[p].Mode.set) =>
         /\ pc[p] = "done"
         /\ cnt[p] = NoCount
         /\ result[p] =
              [val |-> NoVal,
               err |-> [kind |-> "ErrInvalidParams",
                        Errs |-> <<[Field |-> "Mode",
                                    Message |-> "missing required field"]>>]]
    /\ (op[p] = "GetIllustDetail" /\ params[p] # NoRecord /\ ~params[p].IllustID.set) =>
         /\ pc[p] = "done"
         /\ cnt[p] = NoCount
         /\ result[p] =
              [val |-> NoVal,
               err |-> [kind |-> "ErrInvalidParams",
                        Errs |-> <<[Field |-> "IllustID",
                                    Message |-> "missing required field"]>>]]

C10_Witness ==
  \E p \in Callers :
    /\ op[p] = "GetIllustRanking"
    /\ pc[p] = "done"
    /\ result[p].err.kind = "ErrInvalidParams"
    /\ ~params[p].Mode.set
    /\ token # NoToken

\* C11: the query of a GetIllustRanking request has mode and filter, filter being the
\* caller's value when SetFilter was called and for_android otherwise; date and offset
\* are in it exactly when they were set; mode=day alone gives exactly mode=day and
\* filter=for_android.
C11_RankingQueryHasModeAndFilter ==
  \A p \in Callers :
    (op[p] = "GetIllustRanking" /\ apiReq[p] # NoRequest) =>
      LET q == apiReq[p].query
          prm == params[p]
      IN /\ DOMAIN q = {"mode", "filter"}
                         \cup (IF prm.Date.set THEN {"date"} ELSE {})
                         \cup (IF prm.Offset.set THEN {"offset"} ELSE {})
         /\ q["mode"] = prm.Mode.v
         /\ q["filter"] = IF prm.Filter.set THEN prm.Filter.v ELSE "for_android"
         /\ prm.Date.set => q["date"] = <<"2", "0", "1", "7", "-", "0", "9", "-", "0", "1">>
         /\ prm.Offset.set => q["offset"] = <<"3", "0">>
         /\ prm = [Mode |-> Some("day"), Date |-> None, Offset |-> None, Filter |-> None] =>
              q = ("mode" :> "day") @@ ("filter" :> "for_android")

C11_Witness ==
  \E p \in Callers :
    /\ op[p] = "GetIllustRanking"
    /\ pc[p] = "api"
    /\ params[p] = [Mode |-> Some("day"), Date |-> None, Offset |-> None, Filter |-> None]
    /\ apiReq[p].query = ("mode" :> "day") @@ ("filter" :> "for_android")

\* the methods of the client that call a resource endpoint and decode its answer
EndpointOps == {"GetIllustRanking", "GetIllustRankingNext", "GetIllustDetail"}

\* a goroutine whose endpoint method has finished on a response with this property
Answered(p) ==
  /\ pc[p] = "done"
  /\ op[p] \in EndpointOps
  /\ apiOut[p] # NoRecord
  /\ apiOut[p].transport = "ok"

\* what C12 says of the ErrAPI for a response whose status is not 200
ErrAPIOf(res) ==
  [kind |-> "ErrAPI", StatusCode |-> res.StatusCode, Status |-> StatusText(res.StatusCode),
   JSON |-> IF Contains(res.ContentType, "application/json") THEN res.Body ELSE EmptyBody]

\* C12 (as claimed): for every response of a resource endpoint whose status is not 200
\* the method returns a nil result and an ErrAPI with the response's status code and
\* status text, whose JSON is the raw body exactly when the Content-Type contains
\* application/json.
C12_EveryNon200YieldsErrAPI ==
  \A p \in Callers :
    (Answered(p) /\ apiOut[p].res.StatusCode # 200) =>
      result[p] = [val |-> NoVal, err |-> ErrAPIOf(apiOut[p].res)]

\* C12 (amended): as claimed when the body, if it is read, is read without error; when
\* reading the body of a JSON response fails, the method returns a nil result and the
\* read error instead.
C12_Non200YieldsErrAPIUnlessReadFails ==
  \A p \in Callers :
    (Answered(p) /\ apiOut[p].res.StatusCode # 200) =>
      result[p] = [val |-> NoVal,
                   err |-> IF apiOut[p].res.readOK THEN ErrAPIOf(apiOut[p].res)
                                                   ELSE [kind |-> "read"]]

C12_Witness ==
  \E p \in Callers :
    /\ Answered(p)
    /\ op[p] = "GetIllustRanking"
    /\ apiOut[p].res.StatusCode = 404
    /\ result[p].val = NoVal
    /\ result[p].err.kind = "ErrAPI"
    /\ result[p].err.Status = "404 Not Found"
    /\ result[p].err.JSON = ApiErrorBody

\* the auth call of the lock holder did not produce a token
AuthFailed ==
  \/ lastResponse = NoRecord
  \/ ~Is2xx(lastResponse.StatusCode)
  \/ ~Contains(lastResponse.ContentType, "application/json")
  \/ ~JSONDecodes(lastResponse.Body)

\* the resource call of goroutine p did not produce a result
ApiFailed(p) ==
  \/ apiOut[p].transport = "error"
  \/ apiOut[p].res.StatusCode # 200
  \/ ~Contains(apiOut[p].res.ContentType, "application/json")
  \/ ~JSONDecodes(apiOut[p].res.Body)

\* C13: nothing is retried: one Token() call sends at most one request to the auth
\* endpoint and one endpoint-method call sends at most one resource request, whatever
\* comes back (transport error, bad status, wrong content type, undecodable body), and
\* the failure is what that same call returns.
C13_NoRetries ==
  \A p \in Callers :
    /\ cnt[p].token <= 1
    /\ cnt[p].auth <= 1
    /\ cnt[p].api <= 1
    /\ (pc[p] = "unlock" /\ path[p] # "cached" /\ AuthFailed) =>
         /\ cnt[p].auth = 1
         /\ ret[p].err # Nil
    /\ (pc[p] = "done" /\ op[p] \in EndpointOps /\ apiOut[p] # NoRecord /\ ApiFailed(p)) =>
         /\ cnt[p].api = 1
         /\ result[p].val = NoVal
         /\ result[p].err # Nil

C13_Witness ==
  \E p \in Callers :
    /\ pc[p] = "done"
    /\ op[p] = "GetIllustDetail"
    /\ apiOut[p] = [transport |-> "error"]
    /\ result[p].err = [kind |-> "transport"]
    /\ cnt[p] = [token |-> 1, auth |-> 1, api |-> 1]

\* the required field of the parameter object of goroutine p is unset
InvalidParams(p) ==
  \/ op[p] = "GetIllustRanking" /\ ~params[p].Mode.set
  \/ op[p] = "GetIllustDetail" /\ ~params[p].IllustID.set

\* C14: what an endpoint method returns is decided in this order: validation error,
\* token error, transport error, status check, content-type check, decode; a 200
\* response whose Content-Type does not contain application/json gives the
\* content-type error, whatever its body, and no result.
C14_OutcomeOrder ==
  \A p \in Callers :
    (pc[p] = "done" /\ op[p] \in EndpointOps) =>
      IF InvalidParams(p)
        THEN result[p].val = NoVal /\ result[p].err.kind = "ErrInvalidParams"
      ELSE IF cnt[p].token = 0
        THEN op[p] = "GetIllustRankingNext" /\ result[p] = [val |-> NoVal, err |-> [kind |-> "url"]]
      ELSE IF ret[p].err # Nil
        THEN cnt[p].api = 0 /\ result[p] = [val |-> NoVal, err |-> ret[p].err]
      ELSE IF apiOut[p].transport = "error"
        THEN result[p] = [val |-> NoVal, err |-> [kind |-> "transport"]]
      ELSE IF apiOut[p].res.StatusCode # 200
        THEN result[p].val = NoVal /\ result[p].err.kind \in {"ErrAPI", "read"}
      ELSE IF ~Contains(apiOut[p].res.ContentType, "application/json")
        THEN result[p] = [val |-> NoVal, err |-> [kind |-> "content-type"]]
      ELSE IF ~JSONDecodes(apiOut[p].res.Body)
        THEN result[p] = [val |-> NoVal, err |-> [kind |-> "decode"]]
        ELSE result[p] = [val |-> apiOut[p].res.Body, err |-> Nil]

C14_Witness ==
  \E p \in Callers :
    /\ Answered(p)
    /\ op[p] = "GetIllustDetail"
    /\ apiOut[p].res.StatusCode = 200
    /\ apiOut[p].res.ContentType = CTHtml
    /\ apiOut[p].res.Body = GarbageBody
    /\ result[p] = [val |-> NoVal, err |-> [kind |-> "content-type"]]

\* C15: a refresh-grant request carries the refresh token of the token document
\* decoded last by this provider (not an older one, not the access token), client_id,
\* client_secret, grant_type=refresh_token and get_secure_url=true, and nothing else;
\* so each refresh request carries the refresh token of the response before it.
C15_RefreshCarriesLatestRefreshToken ==
  \A p \in Callers :
    (pc[p] = "http" /\ path[p] = "refresh") =>
      /\ lastDecoded # NoRecord
      /\ authReq[p].form =
           [refresh_token |-> lastDecoded.body.refresh_token,
            client_id |-> "CLIENT_ID", client_secret |-> "CLIENT_SECRET",
            grant_type |-> "refresh_token", get_secure_url |-> "true"]
      /\ authReq[p].form.refresh_token # lastDecoded.body.access_token
      /\ DOMAIN authReq[p].form \cap {"username", "password"} = {}

\* goroutine q was handed access token 2 by a call that is over; the token was then
\* replaced, which only a refresh does, by document 1; p's refresh request carries
\* the refresh token of that refresh response
C15_Witness ==
  \E p, q \in Callers :
    /\ p # q
    /\ pc[q] = "done"
    /\ ret[q] = [tok |-> <<"AT", 2>>, err |-> Nil]
    /\ token.accessToken = <<"AT", 1>>
    /\ pc[p] = "http"
    /\ path[p] = "refresh"
    /\ authReq[p].form.refresh_token = <<"RT", 1>>

\* the auth call came back with a transport error, or with a 2xx response that is
\* not JSON or does not decode
Unusable(res) ==
  \/ res = NoRecord
  \/ /\ Is2xx(res.StatusCode)
     /\ \/ ~Contains(res.ContentType, "application/json")
        \/ ~JSONDecodes(res.Body)

\* what Token() is about to return agrees with p.token
C16Returned ==
  \A p \in Callers :
    (pc[p] = "unlock" /\ ret[p].err = Nil) =>
      /\ token # NoToken
      /\ ret[p].tok = token.accessToken

\* the auth call of a goroutine comes back
C16Step ==
  \A p \in Callers :
    (pc[p] = "http" /\ pc'[p] = "unlock" /\ Unusable(lastResponse')) =>
      /\ ret'[p].tok = EmptyString
      /\ ret'[p].err # Nil
      /\ token' = token

\* C16: a transport error and a 2xx auth response that is not JSON or does not decode
\* make Token() return "" and an error and leave p.token as it was; and whenever
\* Token() returns a nil error, p.token is non-nil and the string returned is its
\* access token.
C16_UnusableResponseIsAFailure == []C16Returned /\ [][C16Step]_vars

C16_Witness ==
  \E p \in Callers :
    /\ pc[p] = "unlock"
    /\ lastResponse # NoRecord
    /\ lastResponse.StatusCode = 200
    /\ lastResponse.ContentType = CTHtml
    /\ lastResponse.Body \in TokenBodies
    /\ ret[p] = [tok |-> EmptyString, err |-> [kind |-> "content-type"]]
    /\ token # NoToken
    /\ token.accessToken # lastResponse.Body.access_token

\* the mutex is held only by a goroutine that is inside Token()
C17LockHeldInsideToken ==
  mx # 0 => pc[mx] \in {"check", "http", "unlock"}

\* C17: the lock is released on every return path of Token(), so, auth calls
\* returning, every goroutine waiting for the lock gets it and returns from Token():
\* a failed call does not leave the provider locked and callers do not deadlock.
C17_BlockedCallersReturn ==
  /\ []C17LockHeldInsideToken
  /\ \A p \in Callers : (pc[p] = "lock") ~> (pc[p] = "done")

\* a goroutine waits for the lock while the holder is about to return an error
C17_Witness ==
  \E p, q \in Callers :
    /\ pc[q] = "lock"
    /\ mx = p
    /\ pc[p] = "unlock"
    /\ ret[p].err # Nil

====
